---- MODULE Spec2Model ----
(***************************************************************************)
(* A model of the BPE tokenizer of src/token_working_code.py (the live     *)
(* class Tokenizer, lines 572-815) and of its driver src/main.py.          *)
(*                                                                         *)
(* A Python str is modelled as a sequence of one-character strings, so a   *)
(* symbol such as "lo" is <<"l","o">> and string concatenation is \o.      *)
(* A Python dict is modelled as a sequence of <<key, value>> entries in    *)
(* insertion order (the order Python guarantees for iteration).            *)
(***************************************************************************)
EXTENDS Integers, Sequences, FiniteSets, TLC

\* ------------------------------------------------------------------ bounds

\* longest text in the systematic part of the input texts
MaxTextLen == 1
\* number of train() calls in one behaviour
MaxTrains == 2
\* longest id sequence handed to decode()
MaxIdsLen == 2
\* largest id in the id sequences handed to decode()
MaxId == 8

\* ------------------------------------------------------- python primitives

\* the characters of the model in increasing code point order
CharOrder ==
  <<" ", ".", "/", "1", ":", "<", ">", "a", "b", "c", "e", "h", "k", "l", "n", "o",
    "p", "r", "s", "t", "u", "w", "|">>

\* ord(c), up to an order preserving renumbering
Ord(c) == CHOOSE i \in 1..Len(CharOrder) : CharOrder[i] = c

\* the characters \s matches and str.strip()/str.split() treat as blank
WhiteSpace == {" "}

\* the characters \d matches
Digits == {"0", "1", "2", "3", "4", "5", "6", "7", "8", "9"}

Range(s) == {s[i] : i \in DOMAIN s}

\* s[i:] (1-based i)
Drop(s, i) == IF i > Len(s) THEN <<>> ELSE SubSeq(s, i, Len(s))

\* s.startswith(p, i-1)
StartsAt(s, i, p) ==
  /\ i + Len(p) - 1 <= Len(s)
  /\ \A k \in 1..Len(p) : s[i + k - 1] = p[k]

StartsWith(s, p) == StartsAt(s, 1, p)

EndsWith(s, p) == Len(p) <= Len(s) /\ StartsAt(s, Len(s) - Len(p) + 1, p)

\* "".join(parts)
RECURSIVE Join(_)
Join(parts) ==
  IF parts = <<>> THEN <<>> ELSE Head(parts) \o Join(Tail(parts))

\* s.strip()
RECURSIVE LStrip(_)
LStrip(s) ==
  IF s # <<>> /\ Head(s) \in WhiteSpace THEN LStrip(Tail(s)) ELSE s

RECURSIVE RStrip(_)
RStrip(s) ==
  IF s # <<>> /\ s[Len(s)] \in WhiteSpace
  THEN RStrip(SubSeq(s, 1, Len(s) - 1))
  ELSE s

Strip(s) == RStrip(LStrip(s))

\* s.split(): the maximal runs of non-blank characters, in order
RECURSIVE SplitFrom(_, _, _)
SplitFrom(s, i, cur) ==
  IF i > Len(s)
  THEN IF cur = <<>> THEN <<>> ELSE <<cur>>
  ELSE IF s[i] \in WhiteSpace
       THEN (IF cur = <<>> THEN <<>> ELSE <<cur>>) \o SplitFrom(s, i + 1, <<>>)
       ELSE SplitFrom(s, i + 1, Append(cur, s[i]))

Split(s) == SplitFrom(s, 1, <<>>)

\* dict operations on a sequence of <<key, value>> entries
DictKeys(d) == {d[i][1] : i \in DOMAIN d}

DictHas(d, k) == \E i \in DOMAIN d : d[i][1] = k

DictGet(d, k) == d[CHOOSE i \in DOMAIN d : d[i][1] = k][2]

\* d[k] = v: an existing key keeps its place, a new key goes last
DictSet(d, k, v) ==
  IF DictHas(d, k)
  THEN [i \in DOMAIN d |-> IF d[i][1] = k THEN <<k, v>> ELSE d[i]]
  ELSE Append(d, <<k, v>>)

DictValues(d) == {d[i][2] : i \in DOMAIN d}

\* max(values) of a non-empty set of integers
Max(S) == CHOOSE m \in S : \A x \in S : x <= m

\* ---------------------------------------------------------------- cleaning

Http == <<"h", "t", "t", "p", ":", "/", "/">>
Https == <<"h", "t", "t", "p", "s", ":", "/", "/">>
Www == <<"w", "w", "w", ".">>

\* the index of the last character of the run of non-blank characters that
\* starts at j (j - 1 when there is none): what a greedy \S+ consumes
RECURSIVE RunEnd(_, _)
RunEnd(s, j) ==
  IF j <= Len(s) /\ s[j] \notin WhiteSpace THEN RunEnd(s, j + 1) ELSE j - 1

\* the end of the match of  https?://\S+|www\.\S+  at position i, 0 if none
UrlMatchEnd(s, i) ==
  LET after(p) == IF StartsAt(s, i, p) /\ RunEnd(s, i + Len(p)) >= i + Len(p)
                  THEN RunEnd(s, i + Len(p))
                  ELSE 0
  IN  IF after(Https) > 0 THEN after(Https)
      ELSE IF after(Http) > 0 THEN after(Http)
      ELSE after(Www)

\* re.sub(r"https?://\S+|www\.\S+", "", text)
RECURSIVE RemoveUrlsFrom(_, _)
RemoveUrlsFrom(s, i) ==
  IF i > Len(s) THEN <<>>
  ELSE IF UrlMatchEnd(s, i) > 0 THEN RemoveUrlsFrom(s, UrlMatchEnd(s, i) + 1)
  ELSE <<s[i]>> \o RemoveUrlsFrom(s, i + 1)

RemoveUrls(s) == RemoveUrlsFrom(s, 1)

\* re.sub(r'\d+', '', text)
RemoveDigits(s) == SelectSeq(s, LAMBDA c : c \notin Digits)

\* re.sub(r"\s+", " ", text)
RECURSIVE CollapseFrom(_, _)
CollapseFrom(s, i) ==
  IF i > Len(s) THEN <<>>
  ELSE IF s[i] \in WhiteSpace
       THEN (IF i > 1 /\ s[i - 1] \in WhiteSpace THEN <<>> ELSE <<" ">>)
            \o CollapseFrom(s, i + 1)
       ELSE <<s[i]>> \o CollapseFrom(s, i + 1)

CollapseSpaces(s) == CollapseFrom(s, 1)

\* Tokenizer._process_clean
_process_clean(text) == Strip(CollapseSpaces(RemoveDigits(RemoveUrls(text))))

\* --------------------------------------------------------------- constants

\* Tokenizer.END_WORD = "</w>"
END_WORD == <<"<", "/", "w", ">">>

EndOfText == <<"<", "|", "e", "n", "d", "o", "f", "t", "e", "x", "t", "|", ">">>
Padding == <<"<", "|", "p", "a", "d", "d", "i", "n", "g", "|", ">">>
StartOfText ==
  <<"<", "|", "s", "t", "a", "r", "t", "o", "f", "t", "e", "x", "t", "|", ">">>
Unk == <<"<", "|", "u", "n", "k", "|", ">">>
Mask == <<"<", "|", "m", "a", "s", "k", "|", ">">>

\* self.special_tokens, a dict literal: its entries in source order
special_tokens ==
  << <<EndOfText, 2>>, <<Padding, 2>>, <<StartOfText, 1>>, <<Unk, 4>>,
     <<Mask, 5>> >>

\* the defaults of Tokenizer.__init__
DefaultVocabSize == 1000000
DefaultMinFrequency == 2

\* the configurations a Tokenizer is constructed with
VocabSizes == {8, DefaultVocabSize}
MinFrequencies == {1, DefaultMinFrequency}

\* ------------------------------------------------------------------- state

VARIABLES
  vocab_size,     \* self.vocab_size
  min_frequency,  \* self.min_frequency
  vocab,          \* self.vocab: dict symbol -> id
  merges,         \* self.merges: list of pairs <<a, b>>
  pair_ranks,     \* self.pair_ranks: dict pair -> rank
  next_token_id,  \* self.next_token_id
  vocab_file,     \* <output_dir>/vocab.json
  merges_file,    \* <output_dir>/merges.json
  pc,             \* "idle", or "train_loop" inside the while loop of train()
  vocab_words,    \* the local vocab_words of train(): list of <<symbols, freq>>
  ret,            \* the last call and what it returned or raised
  trains,         \* history: the number of train() calls so far
  saved           \* history: what the last save() call was given to write

tokenizer == <<vocab, merges, pair_ranks, next_token_id>>
config == <<vocab_size, min_frequency>>
files == <<vocab_file, merges_file>>
vars ==
  <<vocab_size, min_frequency, vocab, merges, pair_ranks, next_token_id,
    vocab_file, merges_file, pc, vocab_words, ret, trains, saved>>

NoFile == [exists |-> FALSE, data |-> <<>>]
File(data) == [exists |-> TRUE, data |-> data]

\* what is recorded of the save() calls: the arguments of the last one,
\* whether it wrote both artifacts (done), and whether the two stored
\* artifacts were written by different calls, or only one is stored (torn)
NoSave == [done |-> FALSE, vocab |-> <<>>, merges |-> <<>>, torn |-> FALSE]

\* a call's outcome: op is the method, val how it ended, and the arguments
\* and the result of train (text), encode (text, add, ids) and decode (ids,
\* out)
Ret(op, val) ==
  [op |-> op, val |-> val, text |-> <<>>, add |-> FALSE, ids |-> <<>>,
   out |-> <<>>]

\* ------------------------------------------------------------ construction

\* the first free id taken to be the smallest special id
SmallestSpecialId ==
  CHOOSE m \in DictValues(special_tokens) : \A x \in DictValues(special_tokens) : m <= x

\* Tokenizer.__init__: next_token_id = max(special ids) + 1
InitialNextTokenId == Max(DictValues(special_tokens)) + 1

\* Tokenizer(vocab_size, min_frequency): a new object over the same
\* output directory (main.py builds token, then token1)
__init__(vs, mf) ==
  /\ vocab_size' = vs
  /\ min_frequency' = mf
  /\ vocab' = <<>>
  /\ merges' = <<>>
  /\ pair_ranks' = <<>>
  /\ next_token_id' = InitialNextTokenId

\* ------------------------------------------------------------- vocab init

\* sorted(set(text)): the distinct characters by code point
RECURSIVE SortedChars(_)
SortedChars(S) ==
  IF S = {} THEN <<>>
  ELSE LET c == CHOOSE x \in S : \A y \in S : Ord(x) <= Ord(y)
       IN  <<c>> \o SortedChars(S \ {c})

\* for tok, tid in self.special_tokens.items(): self.vocab[tok] = tid
RECURSIVE AddSpecials(_, _)
AddSpecials(v, i) ==
  IF i > Len(special_tokens) THEN v
  ELSE AddSpecials(DictSet(v, special_tokens[i][1], special_tokens[i][2]), i + 1)

\* the loop over the corpus characters; st is [vocab, next_token_id]
RECURSIVE AddChars(_, _, _)
AddChars(st, chars, i) ==
  IF i > Len(chars) THEN st
  ELSE IF chars[i] \notin WhiteSpace /\ ~DictHas(st.vocab, <<chars[i]>>)
       THEN AddChars([vocab |-> DictSet(st.vocab, <<chars[i]>>, st.next_token_id),
                      next_token_id |-> st.next_token_id + 1], chars, i + 1)
       ELSE AddChars(st, chars, i + 1)

\* Tokenizer._initialize_vocab, from the state [vocab, next_token_id]
_initialize_vocab(v, nid, text) ==
  LET v1 == AddSpecials(v, 1)
      st == IF ~DictHas(v1, END_WORD)
            THEN [vocab |-> DictSet(v1, END_WORD, nid), next_token_id |-> nid + 1]
            ELSE [vocab |-> v1, next_token_id |-> nid]
  IN  AddChars(st, SortedChars(Range(text)), 1)

\* ------------------------------------------------------------- BPE helpers

\* _get_stats without the test for the word boundary: pairs with the
\* end-of-word marker are counted like the others
RECURSIVE StatsWordAcrossBoundary(_, _, _, _)
StatsWordAcrossBoundary(pairs, symbols, freq, i) ==
  IF i > Len(symbols) - 1 THEN pairs
  ELSE LET a == symbols[i]
           b == symbols[i + 1]
       IN  StatsWordAcrossBoundary(
             DictSet(pairs, <<a, b>>,
                     (IF DictHas(pairs, <<a, b>>) THEN DictGet(pairs, <<a, b>>) ELSE 0)
                     + freq),
             symbols, freq, i + 1)

\* the inner loop of _get_stats over one word
RECURSIVE StatsWord(_, _, _, _)
StatsWord(pairs, symbols, freq, i) ==
  IF i > Len(symbols) - 1 THEN pairs
  ELSE LET a == symbols[i]
           b == symbols[i + 1]
       IN  IF a = END_WORD \/ b = END_WORD
           THEN StatsWord(pairs, symbols, freq, i + 1)
           ELSE StatsWord(
                  DictSet(pairs, <<a, b>>,
                          (IF DictHas(pairs, <<a, b>>) THEN DictGet(pairs, <<a, b>>) ELSE 0)
                          + freq),
                  symbols, freq, i + 1)

RECURSIVE StatsFrom(_, _, _)
StatsFrom(pairs, words, w) ==
  IF w > Len(words) THEN pairs
  ELSE StatsFrom(StatsWord(pairs, words[w][1], words[w][2], 1), words, w + 1)

\* Tokenizer._get_stats: dict pair -> weighted count, in first-seen order
_get_stats(words) == StatsFrom(<<>>, words, 1)

\* _merge_vocab copying every symbol, the pair left as it is
MergeWordKeep(a, b, symbols, i) == Drop(symbols, i)

\* the while loop of _merge_vocab over one word
RECURSIVE MergeWord(_, _, _, _)
MergeWord(a, b, symbols, i) ==
  IF i > Len(symbols) THEN <<>>
  ELSE IF i < Len(symbols) /\ symbols[i] = a /\ symbols[i + 1] = b
       THEN <<a \o b>> \o MergeWord(a, b, symbols, i + 2)
       ELSE <<symbols[i]>> \o MergeWord(a, b, symbols, i + 1)

\* _merge_vocab appending (out, 1) instead of (out, freq)
_merge_vocab_unit_freq(pair, words) ==
  << [w \in DOMAIN words |-> <<MergeWord(pair[1], pair[2], words[w][1], 1), 1>>],
     pair[1] \o pair[2] >>

\* Tokenizer._merge_vocab: <<new_words, merged>>
_merge_vocab(pair, words) ==
  << [w \in DOMAIN words |-> <<MergeWord(pair[1], pair[2], words[w][1], 1), words[w][2]>>],
     pair[1] \o pair[2] >>

\* max() returning the last item of greatest count instead of the first
MaxItemLast(pairs) ==
  pairs[CHOOSE i \in DOMAIN pairs :
          /\ \A j \in DOMAIN pairs : pairs[j][2] <= pairs[i][2]
          /\ \A j \in (i + 1)..Len(pairs) : pairs[j][2] < pairs[i][2]]

\* max(pairs.items(), key=lambda x: x[1]): the first item of greatest count
MaxItem(pairs) ==
  pairs[CHOOSE i \in DOMAIN pairs :
          /\ \A j \in DOMAIN pairs : pairs[j][2] <= pairs[i][2]
          /\ \A j \in 1..(i - 1) : pairs[j][2] < pairs[i][2]]

\* word_freqs of train(): dict word symbols -> count, in first-seen order
RECURSIVE WordFreqs(_, _, _)
WordFreqs(wf, words, i) ==
  IF i > Len(words) THEN wf
  ELSE LET symbols == [k \in 1..Len(words[i]) |-> <<words[i][k]>>] \o <<END_WORD>>
       IN  WordFreqs(
             DictSet(wf, symbols,
                     (IF DictHas(wf, symbols) THEN DictGet(wf, symbols) ELSE 0) + 1),
             words, i + 1)

\* ----------------------------------------------------------- tokenize word

\* the pairs of adjacent tokens that have a rank, as <<rank, position>>
Ranked(tokens) ==
  {<<DictGet(pair_ranks, <<tokens[i], tokens[i + 1]>>), i>> :
     i \in {j \in 1..(Len(tokens) - 1) :
              DictHas(pair_ranks, <<tokens[j], tokens[j + 1]>>)}}

\* min() returning the last position among the pairs of lowest rank
MinRankedRightmost(ranked) ==
  CHOOSE r \in ranked :
    \A q \in ranked : r[1] < q[1] \/ (r[1] = q[1] /\ r[2] >= q[2])

\* min(ranked, key=lambda x: x[0]): lowest rank, first position among equals
MinRanked(ranked) ==
  CHOOSE r \in ranked :
    \A q \in ranked : r[1] < q[1] \/ (r[1] = q[1] /\ r[2] <= q[2])

\* one pass of the while loop of _tokenize_word
MergeAt(tokens, pos) ==
  SubSeq(tokens, 1, pos - 1) \o <<tokens[pos] \o tokens[pos + 1]>>
    \o Drop(tokens, pos + 2)

RECURSIVE Reduce(_)
Reduce(tokens) ==
  IF Ranked(tokens) = {} THEN tokens
  ELSE Reduce(MergeAt(tokens, MinRanked(Ranked(tokens))[2]))

\* Tokenizer._tokenize_word
_tokenize_word(word) ==
  LET tokens == [k \in 1..Len(word) |-> <<word[k]>>] \o <<END_WORD>>
  IN  IF merges = <<>> THEN tokens ELSE Reduce(tokens)

\* ---------------------------------------------------------- encode, decode

\* the ids encode appends for one token
TokenIds(tok) ==
  IF DictHas(vocab, tok)
  THEN <<DictGet(vocab, tok)>>
  ELSE [k \in 1..Len(tok) |->
          IF DictHas(vocab, <<tok[k]>>)
          THEN DictGet(vocab, <<tok[k]>>)
          ELSE DictGet(special_tokens, Unk)]

WordIds(word) ==
  LET toks == _tokenize_word(word)
  IN  Join([k \in 1..Len(toks) |-> TokenIds(toks[k])])

\* Tokenizer.encode
encode(text, add_special_tokens) ==
  LET cleaned == _process_clean(text)
      words == Split(cleaned)
  IN  IF cleaned = <<>> THEN <<>>
      ELSE (IF add_special_tokens THEN <<DictGet(special_tokens, StartOfText)>> ELSE <<>>)
           \o Join([k \in 1..Len(words) |-> WordIds(words[k])])
           \o (IF add_special_tokens THEN <<DictGet(special_tokens, EndOfText)>> ELSE <<>>)

\* d[tid] = tok for every <<tok, tid>> of entries, in order
RECURSIVE AddReversed(_, _, _)
AddReversed(d, entries, i) ==
  IF i > Len(entries) THEN d
  ELSE AddReversed(DictSet(d, entries[i][2], entries[i][1]), entries, i + 1)

\* id_to_token of decode: the vocabulary reversed, then the special tokens
id_to_token == AddReversed(AddReversed(<<>>, vocab, 1), special_tokens, 1)

\* the for loop of decode from position i: the list out
RECURSIVE DecodeFrom(_, _, _)
DecodeFrom(idmap, token_ids, i) ==
  IF i > Len(token_ids) THEN <<>>
  ELSE LET tok == IF DictHas(idmap, token_ids[i])
                  THEN DictGet(idmap, token_ids[i])
                  ELSE Unk
       IN  IF tok \in {StartOfText, Padding, Mask}
             THEN DecodeFrom(idmap, token_ids, i + 1)
           ELSE IF tok = EndOfText
             THEN <<>>
           ELSE IF tok = END_WORD
             THEN <<" ">> \o DecodeFrom(idmap, token_ids, i + 1)
           ELSE IF StartsWith(tok, <<"<", "|">>) /\ EndsWith(tok, <<"|", ">">>)
             THEN DecodeFrom(idmap, token_ids, i + 1)
           ELSE tok \o DecodeFrom(idmap, token_ids, i + 1)

\* Tokenizer.decode
decode(token_ids) == Strip(DecodeFrom(id_to_token, token_ids, 1))

\* ------------------------------------------------------------ persistence

\* json.dump(self.vocab): an object, one member per entry in dict order
DumpVocab(v) == [i \in DOMAIN v |-> [key |-> v[i][1], value |-> v[i][2]]]

\* {k: int(v) for k, v in json.load(f).items()}
RECURSIVE LoadVocabFrom(_, _, _)
LoadVocabFrom(d, members, i) ==
  IF i > Len(members) THEN d
  ELSE LoadVocabFrom(DictSet(d, members[i].key, members[i].value), members, i + 1)

LoadVocab(members) == LoadVocabFrom(<<>>, members, 1)

\* json.dump([[a, b] for (a, b) in self.merges]): a list of two-element lists
DumpMerges(m) == [i \in DOMAIN m |-> <<m[i][1], m[i][2]>>]

\* load() reading the merge list back to front
LoadMergesReversed(merges_list) ==
  [i \in DOMAIN merges_list |->
     <<merges_list[Len(merges_list) + 1 - i][1], merges_list[Len(merges_list) + 1 - i][2]>>]

\* [tuple(p) for p in merges_list]
LoadMerges(merges_list) ==
  [i \in DOMAIN merges_list |-> <<merges_list[i][1], merges_list[i][2]>>]

\* {tuple(p): i for i, p in enumerate(self.merges)}, ranks from 0
RECURSIVE RanksFrom(_, _, _)
RanksFrom(d, m, i) ==
  IF i > Len(m) THEN d ELSE RanksFrom(DictSet(d, m[i], i - 1), m, i + 1)

RanksOf(m) == RanksFrom(<<>>, m, 1)

\* ------------------------------------------------------------------ inputs

\* the texts handed to train() and encode(): every text over Alphabet of at
\* most MaxTextLen characters, and the texts of SpecialTexts
Alphabet == {"a", "b", " "}

SysTexts == UNION {[1..n -> Alphabet] : n \in 0..MaxTextLen}

\* "ab ab", "www.a  b1" and "</w>a"
SpecialTexts ==
  { <<"a", "b", " ", "a", "b">>,
    <<"w", "w", "w", ".", "a", " ", " ", "b", "1">>,
    <<"<", "/", "w", ">", "a">> }

Texts == SysTexts \cup SpecialTexts

\* besides, for encode() and the training that precedes it: "<|unk|>", "c"
\* and "w1ww.a"
CodecTexts ==
  Texts \cup { <<"<", "|", "u", "n", "k", "|", ">">>, <<"c">>,
               <<"w", "1", "w", "w", ".", "a">> }

\* the corpora of the training runs of SpecTrain: besides Texts,
\* "low lower lowest", "ba ab", "ab ba", "www.a 1 " (a URL, a digit and
\* blanks: empty after cleaning) and "aaaa aaa"
LowLowerLowest ==
  <<"l", "o", "w", " ", "l", "o", "w", "e", "r", " ", "l", "o", "w", "e", "s", "t">>

TrainTexts ==
  Texts \cup { LowLowerLowest,
               <<"b", "a", " ", "a", "b">>,
               <<"a", "b", " ", "b", "a">>,
               <<"w", "w", "w", ".", "a", " ", "1", " ">>,
               <<"a", "a", "a", "a", " ", "a", "a", "a">> }

\* the texts encoded after repeated training: besides TrainTexts, "aba"
RetrainTexts == TrainTexts \cup { <<"a", "b", "a">> }

\* the id sequences handed to decode()
IdSeqs == UNION {[1..n -> 0..MaxId] : n \in 0..MaxIdsLen}

\* ----------------------------------------------------------------- actions

Init ==
  /\ vocab_size \in VocabSizes
  /\ min_frequency \in MinFrequencies
  /\ vocab = <<>>
  /\ merges = <<>>
  /\ pair_ranks = <<>>
  /\ next_token_id = InitialNextTokenId
  /\ vocab_file = NoFile
  /\ merges_file = NoFile
  /\ pc = "idle"
  /\ vocab_words = <<>>
  /\ ret = Ret("__init__", "ok")
  /\ trains = 0
  /\ saved = NoSave

\* token1 = Tokenizer(...): the program goes on with a new object; the
\* output directory exists already and keeps its files
Construct ==
  /\ pc = "idle"
  /\ \E vs \in VocabSizes, mf \in MinFrequencies : __init__(vs, mf)
  /\ ret' = Ret("__init__", "ok")
  /\ UNCHANGED <<files, pc, vocab_words, trains, saved>>

\* train() that calls _initialize_vocab before it tests the cleaned text
TrainBeginInitFirst(text) ==
  /\ pc = "idle"
  /\ trains < MaxTrains
  /\ trains' = trains + 1
  /\   LET cleaned == _process_clean(text)
           st == _initialize_vocab(vocab, next_token_id, cleaned)
       IN  IF text = <<>>
           THEN /\ ret' = [Ret("train", "no text") EXCEPT !.text = text]
                /\ UNCHANGED <<vocab, next_token_id, vocab_words, pc>>
           ELSE /\ vocab' = st.vocab
                /\ next_token_id' = st.next_token_id
                /\ IF cleaned = <<>>
                   THEN /\ ret' = [Ret("train", "empty after cleaning") EXCEPT !.text = text]
                        /\ UNCHANGED <<vocab_words, pc>>
                   ELSE /\ vocab_words' = WordFreqs(<<>>, Split(cleaned), 1)
                        /\ pc' = "train_loop"
                        /\ ret' = [Ret("train", "running") EXCEPT !.text = text]
  /\ UNCHANGED <<config, merges, pair_ranks, files, saved>>

\* train(text) up to the while loop: the two early returns, or cleaning,
\* _initialize_vocab and the word frequencies
TrainBegin(text) ==
  /\ pc = "idle"
  /\ trains < MaxTrains
  /\ trains' = trains + 1
  /\   LET cleaned == _process_clean(text)
           st == _initialize_vocab(vocab, next_token_id, cleaned)
       IN  IF text = <<>> \/ cleaned = <<>>
           THEN /\ ret' = [Ret("train", IF text = <<>> THEN "no text"
                                         ELSE "empty after cleaning")
                             EXCEPT !.text = text]
                /\ UNCHANGED <<vocab, next_token_id, vocab_words, pc>>
           ELSE /\ vocab' = st.vocab
                /\ next_token_id' = st.next_token_id
                /\ vocab_words' = WordFreqs(<<>>, Split(cleaned), 1)
                /\ pc' = "train_loop"
                /\ ret' = [Ret("train", "running") EXCEPT !.text = text]
  /\ UNCHANGED <<config, merges, pair_ranks, files, saved>>

\* the loop going on to merge without the test of min_frequency
CanMergeAnyCount ==
  /\ Len(vocab) < vocab_size
  /\ _get_stats(vocab_words) # <<>>

\* the condition under which an iteration of the while loop merges a pair
CanMerge ==
  /\ Len(vocab) < vocab_size
  /\ _get_stats(vocab_words) # <<>>
  /\ MaxItem(_get_stats(vocab_words))[2] >= min_frequency

\* one iteration of the while loop of train() that merges best_pair
TrainMerge ==
  /\ pc = "train_loop"
  /\ CanMerge
  /\ LET best_pair == MaxItem(_get_stats(vocab_words))[1]
         merged == _merge_vocab(best_pair, vocab_words)
     IN  /\ vocab_words' = merged[1]
         /\ IF ~DictHas(vocab, merged[2])
            THEN /\ vocab' = DictSet(vocab, merged[2], next_token_id)
                 /\ next_token_id' = next_token_id + 1
            ELSE UNCHANGED <<vocab, next_token_id>>
         /\ merges' = Append(merges, best_pair)
         /\ pair_ranks' = DictSet(pair_ranks, best_pair, Len(merges))
  /\ UNCHANGED <<config, files, pc, ret, trains, saved>>

\* the while loop ends (its condition fails, or one of the two breaks) and
\* train() returns
TrainEnd ==
  /\ pc = "train_loop"
  /\ ~CanMerge
  /\ pc' = "idle"
  /\ vocab_words' = <<>>
  /\ ret' = [ret EXCEPT !.val = "done"]
  /\ UNCHANGED <<config, tokenizer, files, trains, saved>>

\* save(): both artifacts written
Save ==
  /\ pc = "idle"
  /\ vocab_file' = File(DumpVocab(vocab))
  /\ merges_file' = File(DumpMerges(merges))
  /\ saved' = [done |-> TRUE, vocab |-> vocab, merges |-> merges, torn |-> FALSE]
  /\ ret' = Ret("save", "ok")
  /\ UNCHANGED <<config, tokenizer, pc, vocab_words, trains>>

\* save() when open(merges_path, "w") raises OSError (an unwritable merge
\* artifact): vocab.json is already written, merges.json is as it was
SaveMergesUnwritable ==
  /\ pc = "idle"
  /\ vocab_file' = File(DumpVocab(vocab))
  /\ saved' = [done |-> FALSE, vocab |-> vocab, merges |-> merges,
               torn |-> IF vocab_file = File(DumpVocab(vocab)) THEN saved.torn
                        ELSE merges_file # File(DumpMerges(merges))]
  /\ ret' = Ret("save", "OSError")
  /\ UNCHANGED <<config, tokenizer, merges_file, pc, vocab_words, trains>>

\* load()
Load ==
  /\ pc = "idle"
  /\ IF ~vocab_file.exists
     THEN /\ ret' = Ret("load", "False")
          /\ UNCHANGED tokenizer
     ELSE /\ vocab' = LoadVocab(vocab_file.data)
          /\ IF ~merges_file.exists
             THEN /\ ret' = Ret("load", "False")
                  /\ UNCHANGED <<merges, pair_ranks, next_token_id>>
             ELSE /\ merges' = LoadMerges(merges_file.data)
                  /\ pair_ranks' = RanksOf(merges')
                  /\ IF vocab' = <<>>
                     THEN \* max() of an empty sequence
                          /\ ret' = Ret("load", "ValueError")
                          /\ UNCHANGED next_token_id
                     ELSE /\ next_token_id' = Max(DictValues(vocab')) + 1
                          /\ ret' = Ret("load", "True")
  /\ UNCHANGED <<config, files, pc, vocab_words, trains, saved>>

\* encode() that enters the characters of the text into the vocabulary, as
\* _initialize_vocab does, after computing its result
EncodeAddingChars(text, add) ==
  /\ pc = "idle"
  /\ ret' = [Ret("encode", "ok") EXCEPT
               !.text = text, !.add = add, !.ids = encode(text, add)]
  /\ LET st == AddChars([vocab |-> vocab, next_token_id |-> next_token_id],
                        SortedChars(Range(_process_clean(text))), 1)
     IN  vocab' = st.vocab /\ next_token_id' = st.next_token_id
  /\ UNCHANGED <<config, merges, pair_ranks, files, pc, vocab_words, trains, saved>>

\* encode(text, add_special_tokens)
Encode(text, add) ==
  /\ pc = "idle"
  /\   ret' = [Ret("encode", "ok") EXCEPT
                 !.text = text, !.add = add, !.ids = encode(text, add)]
  /\ UNCHANGED <<config, tokenizer, files, pc, vocab_words, trains, saved>>

\* decode(token_ids)
Decode(ids) ==
  /\ pc = "idle"
  /\   ret' = [Ret("decode", "ok") EXCEPT !.ids = ids, !.out = decode(ids)]
  /\ UNCHANGED <<config, tokenizer, files, pc, vocab_words, trains, saved>>

\* decode(encode(text, add)): main.py decodes what encode returned
DecodeEncoded ==
  /\ pc = "idle"
  /\ ret.op = "encode"
  /\ ret' = [ret EXCEPT !.op = "decode", !.val = "of encode", !.out = decode(ret.ids)]
  /\ UNCHANGED <<config, tokenizer, files, pc, vocab_words, trains, saved>>

\* the life of a tokenizer: construction, training and persistence
Next ==
  \/ Construct
  \/ \E text \in Texts : TrainBegin(text)
  \/ TrainMerge
  \/ TrainEnd
  \/ Save
  \/ SaveMergesUnwritable
  \/ Load

Spec == Init /\ [][Next]_vars

\* train() calls alone, one after the other on the same tokenizer
NextTrain ==
  \/ \E text \in TrainTexts : TrainBegin(text)
  \/ TrainMerge
  \/ TrainEnd

SpecTrain == Init /\ [][NextTrain]_vars

\* train() calls on the corpora of Texts
NextFairTrain ==
  \/ \E text \in Texts : TrainBegin(text)
  \/ TrainMerge
  \/ TrainEnd

\* a train() call that has entered its loop goes on running: the next
\* iteration, or the return, is taken. The caller is free never to call
\* train() again, so TrainBegin has no fairness condition
FairTrain == Init /\ [][NextFairTrain]_vars /\ WF_vars(TrainMerge) /\ WF_vars(TrainEnd)

\* number of train() calls before the encode() and decode() calls of SpecCodec
MaxCodecTrains == 1

\* encode() and decode() read the tokenizer and write nothing but ret, so a
\* call made after one of them is a call that could have been made in its
\* place: SpecCodec branches the calls from the states where the last call
\* was not one of them, and reaches the same states
AfterCodec == ret.op \in {"encode", "decode"}

\* training, then encoding and decoding with what was learned
NextCodec ==
  \/ ~AfterCodec /\ trains < MaxCodecTrains /\ \E text \in CodecTexts : TrainBegin(text)
  \/ TrainMerge
  \/ TrainEnd
  \/ ~AfterCodec /\ \E text \in CodecTexts, add \in BOOLEAN : Encode(text, add)
  \/ ~AfterCodec /\ \E ids \in IdSeqs : Decode(ids)
  \/ DecodeEncoded

SpecCodec == Init /\ [][NextCodec]_vars

\* train() calls on the same tokenizer, then encode() calls
NextRetrain ==
  \/ ~AfterCodec /\ \E text \in TrainTexts : TrainBegin(text)
  \/ TrainMerge
  \/ TrainEnd
  \/ ~AfterCodec /\ \E text \in RetrainTexts, add \in BOOLEAN : Encode(text, add)

SpecRetrain == Init /\ [][NextRetrain]_vars

\* ------------------------------------------------------------------ claims

\* the tokenizer has been trained (or loaded): _initialize_vocab has run
Trained == vocab # <<>>

SOT == DictGet(special_tokens, StartOfText)
EOT == DictGet(special_tokens, EndOfText)
UNK == DictGet(special_tokens, Unk)

\* C1: for a trained tokenizer and every text, decode(encode(text, True)) is
\* _process_clean(text)
C1_RoundTrip ==
  (Trained /\ ret.op = "decode" /\ ret.val = "of encode" /\ ret.add)
    => ret.out = _process_clean(ret.text)

C3_LoadMissing ==
  [][(Load /\ (~vocab_file.exists \/ ~merges_file.exists))
       => (ret'.val = "False" /\ UNCHANGED tokenizer)]_vars

\* token_ids up to, and without, the first id equal to tid
RECURSIVE Before(_, _)
Before(token_ids, tid) ==
  IF token_ids = <<>> \/ Head(token_ids) = tid THEN <<>>
  ELSE <<Head(token_ids)>> \o Before(Tail(token_ids), tid)

\* C4: decode stops at the first end-of-text id: the output is that of the
\* ids before it
C4_StopAtEndOfText ==
  ret.op = "decode" => ret.out = decode(Before(ret.ids, EOT))

\* C5: when train() has returned, the vocabulary has at most vocab_size
\* entries
C5_VocabWithinTarget ==
  (pc = "idle" /\ ret.op = "train" /\ ret.val = "done")
    => Len(vocab) <= vocab_size

\* C6: between calls, no pair occurs twice in the merge table and
\* pair_ranks[merges[i]] is i (ranks count from 0)
C6_RanksArePositions ==
  pc = "idle"
    => /\ \A i, j \in DOMAIN merges : i # j => merges[i] # merges[j]
       /\ \A i \in DOMAIN merges :
            /\ DictHas(pair_ranks, merges[i])
            /\ DictGet(pair_ranks, merges[i]) = i - 1

\* C7: no pair of the merge table has the end-of-word marker as its left or
\* as its right symbol
C7_NoMarkerInMerges ==
  \A i \in DOMAIN merges : merges[i][1] # END_WORD /\ merges[i][2] # END_WORD

\* train() has returned for the second time or later, and the merge table
\* holds a pair whose merged symbol is the text of the end-of-word marker, so
\* that the marker stood inside a word while pairs were counted
C7_Witness ==
  /\ pc = "idle"
  /\ ret.op = "train"
  /\ ret.val = "done"
  /\ trains >= 2
  /\ \E i \in DOMAIN merges : merges[i][1] \o merges[i][2] = END_WORD

\* the number of places of seq that hold x
Count(seq, x) == Cardinality({i \in DOMAIN seq : seq[i] = x})

\* the characters of the words of text (the places of the cleaned text that
\* are not blank) that are no symbol of the vocabulary; _initialize_vocab
\* makes every character of a training corpus a symbol of the vocabulary
Unseen(text) ==
  LET cleaned == _process_clean(text)
  IN  {i \in DOMAIN cleaned :
         cleaned[i] \notin WhiteSpace /\ ~DictHas(vocab, <<cleaned[i]>>)}

\* C8: for a trained tokenizer, encode yields the unknown-token id once for
\* every character that was not in the training corpus, and for no other
\* character
C8_UnkPerUnseenChar ==
  (Trained /\ ret.op = "encode")
    => Count(ret.ids, UNK) = Cardinality(Unseen(ret.text))

\* C9: for a text that is empty after cleaning, encode returns the empty
\* sequence without boundaries and <<start-of-text, end-of-text>> with them;
\* with boundaries, the result always begins with the start-of-text id and
\* ends with the end-of-text id
C9_Boundaries ==
  ret.op = "encode"
    => /\ _process_clean(ret.text) = <<>>
            => ret.ids = IF ret.add THEN <<SOT, EOT>> ELSE <<>>
       /\ ret.add
            => /\ Len(ret.ids) >= 2
               /\ ret.ids[1] = SOT
               /\ ret.ids[Len(ret.ids)] = EOT

\* the ids of the characters of word, then the id of the end-of-word marker
CharIds(word) ==
  [k \in 1..Len(word) |-> DictGet(vocab, <<word[k]>>)] \o <<DictGet(vocab, END_WORD)>>

\* the vocabulary holds the end-of-word marker and every character of the
\* words of text
KnowsChars(text) == DictHas(vocab, END_WORD) /\ Unseen(text) = {}

\* C10: with an empty merge table and a vocabulary that holds the marker and
\* every character of the text, encode(text, True) is the start-of-text id,
\* for every word its character ids and the end-of-word id, and the
\* end-of-text id
C10_NoMerges ==
  (ret.op = "encode" /\ ret.add /\ merges = <<>> /\ KnowsChars(ret.text))
    => LET words == Split(_process_clean(ret.text))
       IN  ret.ids = <<SOT>> \o Join([k \in 1..Len(words) |-> CharIds(words[k])])
                       \o <<EOT>>

\* s < t for two Python strings: the order of the first differing code point,
\* a proper prefix before the longer string
RECURSIVE StrLess(_, _)
StrLess(s, t) ==
  IF t = <<>> THEN FALSE
  ELSE IF s = <<>> THEN TRUE
  ELSE IF Head(s) # Head(t) THEN Ord(Head(s)) < Ord(Head(t))
  ELSE StrLess(Tail(s), Tail(t))

\* p < q for two pairs of symbols: by the left symbol, then by the right one
PairLess(p, q) == StrLess(p[1], q[1]) \/ (p[1] = q[1] /\ StrLess(p[2], q[2]))

\* the pairs of greatest weighted count
TopPairs(pairs) ==
  {pairs[i][1] : i \in {j \in DOMAIN pairs :
                          \A k \in DOMAIN pairs : pairs[k][2] <= pairs[j][2]}}

\* the lexicographic tie-break: the smallest of the pairs of greatest count
LexBest(pairs) ==
  CHOOSE p \in TopPairs(pairs) : \A q \in TopPairs(pairs) \ {p} : PairLess(p, q)

\* the first n merges of a training that selects with the lexicographic
\* tie-break, from the word frequency entries words
RECURSIVE LexMerges(_, _)
LexMerges(words, n) ==
  IF n = 0 \/ _get_stats(words) = <<>> THEN <<>>
  ELSE LET p == LexBest(_get_stats(words))
       IN  <<p>> \o LexMerges(_merge_vocab(p, words)[1], n - 1)

\* the first train() call of a tokenizer, on "low lower lowest" with
\* min_frequency 1 and the default vocab_size
TrainingLowLowerLowest ==
  /\ ret.op = "train"
  /\ ret.text = LowLowerLowest
  /\ trains = 1
  /\ min_frequency = 1
  /\ vocab_size = DefaultVocabSize

LowMerges ==
  << <<<<"l">>, <<"o">>>>, <<<<"l", "o">>, <<"w">>>>, <<<<"l", "o", "w">>, <<"e">>>> >>

\* C11: a fresh tokenizer with min_frequency 1 and a large vocab_size
\* trained on "low lower lowest" learns (l,o), (lo,w), (low,e) with the ranks
\* 0, 1, 2, and these are the first three merges of the selection with the
\* lexicographic tie-break
C11_FirstMerges ==
  TrainingLowLowerLowest
    => /\ \A i \in 1..3 :
            i <= Len(merges)
              => /\ merges[i] = LowMerges[i]
                 /\ DictGet(pair_ranks, merges[i]) = i - 1
       /\ ret.val = "done" => Len(merges) >= 3
       /\ LowMerges = LexMerges(WordFreqs(<<>>, Split(_process_clean(ret.text)), 1), 3)

\* that training has returned, with the three merges learned
C11_Witness ==
  /\ TrainingLowLowerLowest
  /\ pc = "idle"
  /\ ret.val = "done"
  /\ Len(merges) >= 3

\* C12: when train() has returned, no two symbols of the vocabulary (the
\* special tokens included) have the same id, and the reverse mapping that
\* decode builds gives, for the id of every symbol, that symbol
C12_VocabInjective ==
  (pc = "idle" /\ ret.op = "train" /\ ret.val = "done")
    => /\ \A i, j \in DOMAIN vocab : i # j => vocab[i][2] # vocab[j][2]
       /\ \A i \in DOMAIN vocab : DictGet(id_to_token, vocab[i][2]) = vocab[i][1]

\* C13: in every state that train(), save() and load() reach, every symbol
\* of the vocabulary that is not a special token (the end-of-word marker,
\* the characters, the merged symbols) has an id greater than every
\* special-token id
C13_AboveSpecialIds ==
  \A i \in DOMAIN vocab :
    ~DictHas(special_tokens, vocab[i][1])
      => vocab[i][2] > Max(DictValues(special_tokens))

\* load() has restored a vocabulary with the marker, characters and a
\* merged symbol of two characters
C13_Witness ==
  /\ ret.op = "load"
  /\ ret.val = "True"
  /\ DictHas(vocab, END_WORD)
  /\ \E i \in DOMAIN vocab :
       /\ ~DictHas(special_tokens, vocab[i][1])
       /\ vocab[i][1] # END_WORD
       /\ Len(vocab[i][1]) = 2

\* C14: when an iteration of the training loop selects among several pairs
\* of greatest weighted count, the pair it merges is the lexicographically
\* smallest of them
C14_LexTieBreak ==
  [][TrainMerge
       => merges'[Len(merges')] = LexBest(_get_stats(vocab_words))]_vars

\* the token sequences the while loop of _tokenize_word goes through, from
\* tokens to the sequence it returns
RECURSIVE Reductions(_)
Reductions(tokens) ==
  IF Ranked(tokens) = {} THEN <<tokens>>
  ELSE <<tokens>> \o Reductions(MergeAt(tokens, MinRanked(Ranked(tokens))[2]))

\* the sequences _tokenize_word(word) goes through
TokenizeSteps(word) ==
  LET tokens == [k \in 1..Len(word) |-> <<word[k]>>] \o <<END_WORD>>
  IN  IF merges = <<>> THEN <<tokens>> ELSE Reductions(tokens)

\* the rank of a pair of the Merge Table: the 0-based position at which it
\* was learned
RankOf(p) == (CHOOSE i \in DOMAIN merges : merges[i] = p /\ \A j \in 1..(i - 1) : merges[j] # p) - 1

\* the positions of tokens whose adjacent pair is in the Merge Table
Applicable(tokens) ==
  {i \in 1..(Len(tokens) - 1) : <<tokens[i], tokens[i + 1]>> \in Range(merges)}

\* the leftmost of the positions whose pair has the lowest rank
LowestRankPos(tokens) ==
  CHOOSE i \in Applicable(tokens) :
    \A j \in Applicable(tokens) :
      \/ RankOf(<<tokens[i], tokens[i + 1]>>) < RankOf(<<tokens[j], tokens[j + 1]>>)
      \/ /\ RankOf(<<tokens[i], tokens[i + 1]>>) = RankOf(<<tokens[j], tokens[j + 1]>>)
         /\ i <= j

\* after is before with the pair at pos, and no other, replaced by its
\* concatenation
ReplacedAt(before, after, pos) ==
  /\ Len(after) = Len(before) - 1
  /\ \A i \in 1..(pos - 1) : after[i] = before[i]
  /\ after[pos] = before[pos] \o before[pos + 1]
  /\ \A i \in (pos + 1)..Len(after) : after[i] = before[i + 1]

\* the words of the last encoded text
EncodedWords == Range(Split(_process_clean(ret.text)))

\* C15: every step of _tokenize_word replaces exactly one adjacent pair, the
\* leftmost of those with the lowest rank among the adjacent pairs that are
\* in the Merge Table; the loop ends exactly when no adjacent pair is in the
\* Merge Table, after at most len(word) steps
C15_TokenizeSteps ==
  ret.op = "encode"
    => \A word \in EncodedWords :
         LET steps == TokenizeSteps(word)
         IN  /\ \A k \in 1..(Len(steps) - 1) :
                  /\ Applicable(steps[k]) # {}
                  /\ ReplacedAt(steps[k], steps[k + 1], LowestRankPos(steps[k]))
             /\ Applicable(steps[Len(steps)]) = {}
             /\ Len(steps) - 1 <= Len(word)
             /\ _tokenize_word(word) = steps[Len(steps)]

\* the total number of symbols in the word frequency entries
RECURSIVE SymbolCount(_)
SymbolCount(words) ==
  IF words = <<>> THEN 0 ELSE Len(Head(words)[1]) + SymbolCount(Tail(words))

\* C16: every train() call that enters its loop returns, for every
\* vocab_size and min_frequency, and every merging iteration makes the total
\* number of symbols in the word frequency entries strictly smaller
C16_TrainTerminates ==
  /\ (pc = "train_loop") ~> (pc = "idle" /\ ret.op = "train" /\ ret.val = "done")
  /\ [][TrainMerge => SymbolCount(vocab_words') < SymbolCount(vocab_words)]_vars

\* a second train() has returned with min_frequency 1 after merging a pair
\* whose merged symbol was in the vocabulary already: the pair is in the
\* merge list twice
C16_Witness ==
  /\ pc = "idle"
  /\ ret.op = "train"
  /\ ret.val = "done"
  /\ trains = 2
  /\ min_frequency = 1
  /\ \E i, j \in DOMAIN merges : i < j /\ merges[i] = merges[j]

\* C17: while train() is in its loop, every word frequency entry holds the
\* end-of-word marker exactly once, as its last symbol, and no pair of the
\* merge list concatenates to the marker
C17_OneMarkerLast ==
  /\ pc = "train_loop"
       => \A w \in DOMAIN vocab_words :
            /\ Count(vocab_words[w][1], END_WORD) = 1
            /\ vocab_words[w][1][Len(vocab_words[w][1])] = END_WORD
  /\ \A i \in DOMAIN merges : merges[i][1] \o merges[i][2] # END_WORD

\* C18: in every state that train() and load() calls reach, next_token_id
\* is greater than every id of the vocabulary
C18_NextIdFree ==
  \A i \in DOMAIN vocab : vocab[i][2] < next_token_id

\* C19: a step that is an encode() or a decode() call leaves vocab, merges,
\* pair_ranks and next_token_id as they were, and encode() called again
\* with the same arguments in the state it left returns the same ids
C19_CodecReadsOnly ==
  /\ [][ret'.op \in {"encode", "decode"} => UNCHANGED tokenizer]_vars
  /\ [](ret.op = "encode" => encode(ret.text, ret.add) = ret.ids)

\* encode() has returned on a tokenizer with learned merges, with the
\* unknown-token id for a character it does not know
C19_Witness ==
  /\ ret.op = "encode"
  /\ Trained
  /\ merges # <<>>
  /\ Unseen(ret.text) # {}
  /\ Count(ret.ids, UNK) >= 1

\* C20: a train() call whose text is empty, or empty after cleaning,
\* returns without raising and leaves vocab, merges, pair_ranks and
\* next_token_id as they were
C20_EmptyTrain ==
  [][(trains' = trains + 1 /\ _process_clean(ret'.text) = <<>>)
       => /\ UNCHANGED tokenizer
          /\ pc' = "idle"
          /\ ret'.op = "train"
          /\ ret'.val \in {"no text", "empty after cleaning"}]_vars

\* a trained tokenizer whose second train() call, on the text of a URL, a
\* digit and blanks, has returned
C20_Witness ==
  /\ ret.op = "train"
  /\ ret.val = "empty after cleaning"
  /\ ret.text = <<"w", "w", "w", ".", "a", " ", "1", " ">>
  /\ trains = 2
  /\ merges # <<>>

\* C21: load() never raises: every load() call completes and returns a
\* boolean, also for the artifacts that save() wrote from a tokenizer that
\* was never trained or whose training text was empty after cleaning
C21_LoadReturnsBool ==
  ret.op = "load" => ret.val \in {"True", "False"}

\* C22: save() is all-or-nothing: a save() that fails on the merge artifact
\* leaves the stored artifacts as they were, or as the two of this call, and
\* no load() that returns True reads a vocabulary and a merge table that
\* different save() calls wrote
C22_SaveAllOrNothing ==
  /\ [][(ret'.op = "save" /\ ret'.val = "OSError")
          => \/ vocab_file' = vocab_file
             \/ merges_file' = File(DumpMerges(merges))]_vars
  /\ []((ret.op = "load" /\ ret.val = "True") => ~saved.torn)

\* the number of places at which the pair p stands in symbols
Occurrences(p, symbols) ==
  Cardinality({i \in 1..(Len(symbols) - 1) : symbols[i] = p[1] /\ symbols[i + 1] = p[2]})

\* the total weighted count of the pair p over the word frequency entries
RECURSIVE PairCount(_, _)
PairCount(p, words) ==
  IF words = <<>> THEN 0
  ELSE Occurrences(p, Head(words)[1]) * Head(words)[2] + PairCount(p, Tail(words))

\* the adjacent pairs of the word frequency entries that do not include the
\* end-of-word marker
AdjacentPairs(words) ==
  {q \in UNION {{<<words[w][1][i], words[w][1][i + 1]>> : i \in 1..(Len(words[w][1]) - 1)} :
                  w \in DOMAIN words} :
     q[1] # END_WORD /\ q[2] # END_WORD}

\* C23: every pair that train() appends to the merge list is, in the
\* iteration that selects it, an adjacent pair of greatest total weighted
\* count, and this count is at least min_frequency; an iteration in which
\* every count is below min_frequency appends nothing
C23_MaximalAndFrequent ==
  [][/\ merges' # merges
          => /\ merges' = Append(merges, merges'[Len(merges')])
             /\ merges'[Len(merges')] \in AdjacentPairs(vocab_words)
             /\ \A q \in AdjacentPairs(vocab_words) :
                  PairCount(q, vocab_words) <= PairCount(merges'[Len(merges')], vocab_words)
             /\ PairCount(merges'[Len(merges')], vocab_words) >= min_frequency
     /\ (\A q \in AdjacentPairs(vocab_words) : PairCount(q, vocab_words) < min_frequency)
          => merges' = merges]_vars

\* train("low lower lowest") with min_frequency 2 has returned with the
\* three pairs of count 3, 3 and 2, leaving the pairs of count 1 unmerged
C23_Witness ==
  /\ pc = "idle"
  /\ ret.op = "train"
  /\ ret.val = "done"
  /\ ret.text = LowLowerLowest
  /\ min_frequency = 2
  /\ vocab_size = DefaultVocabSize
  /\ trains = 1
  /\ Len(merges) = 3

\* C24: while train() is in its loop, the word frequency entries are one
\* for every distinct word of the cleaned corpus, each with the number of
\* times the word stands in the corpus, and the symbols of each entry
\* concatenate to the word followed by the end-of-word marker
C24_CorpusPreserved ==
  pc = "train_loop"
    => LET words == Split(_process_clean(ret.text))
       IN  /\ Len(vocab_words) = Cardinality(Range(words))
           /\ \A v, w \in DOMAIN vocab_words :
                v # w => Join(vocab_words[v][1]) # Join(vocab_words[w][1])
           /\ \A w \in DOMAIN vocab_words :
                \E k \in DOMAIN words :
                  /\ Join(vocab_words[w][1]) = words[k] \o END_WORD
                  /\ vocab_words[w][2] = Count(words, words[k])

\* the loop has merged a pair in the entry of a word that stands twice in
\* the corpus
C24_Witness ==
  /\ pc = "train_loop"
  /\ merges # <<>>
  /\ \E w \in DOMAIN vocab_words :
       /\ vocab_words[w][2] = 2
       /\ Len(vocab_words[w][1]) < Len(Join(vocab_words[w][1])) - Len(END_WORD) + 1

\* the loop of the first train() call of a tokenizer is about to end: the
\* word frequency entries are those training terminates with
FirstTrainingEnds == pc = "train_loop" /\ ~CanMerge /\ trains = 1

\* C25: when the first training of a tokenizer terminates, for every word
\* of the corpus _tokenize_word(word) is the symbol sequence that the
\* word frequency entry of the word holds
C25_SameSegmentation ==
  FirstTrainingEnds
    => \A word \in Range(Split(_process_clean(ret.text))) :
         \E w \in DOMAIN vocab_words :
           /\ Join(vocab_words[w][1]) = word \o END_WORD
           /\ vocab_words[w][1] = _tokenize_word(word)

\* the training on "aaaa aaa" terminates after merging (a,a) and later
\* pairs: the entries hold symbols of two and more characters
C25_Witness ==
  /\ FirstTrainingEnds
  /\ ret.text = <<"a", "a", "a", "a", " ", "a", "a", "a">>
  /\ Len(merges) >= 2
  /\ merges[1] = << <<"a">>, <<"a">> >>

\* C26: _process_clean is idempotent, so that encode gives for the cleaned
\* text the ids it gives for the text
C26_CleanIdempotent ==
  ret.op = "encode"
    => /\ _process_clean(_process_clean(ret.text)) = _process_clean(ret.text)
       /\ encode(_process_clean(ret.text), ret.add) = ret.ids

====
